---- MODULE Spec2Model ----
(***************************************************************************)
(* A model of rdiff: the rolling-hash differ (BlockHashes, Window,         *)
(* RollingHash, Diff) and the Hirschberg string refiner (string_diff).     *)
(*                                                                         *)
(* Byte sources are in-memory cursors: a read fills the whole buffer while *)
(* data remains, and any read may instead return an I/O error.             *)
(***************************************************************************)
EXTENDS Integers, Sequences, FiniteSets, TLC

\* ------------------------------------------------------------------ bounds
MaxLen == 3      \* longest byte source
MaxByte == 1     \* bytes are 0..MaxByte
MaxBlock == 2    \* block sizes are 1..MaxBlock
MaxStr == 4      \* longest string given to find_diff
MaxOps == 2      \* add_insert / add_delete calls that build a script by hand
MaxWin == 2      \* longest short window given to RollingHash::new
MaxRolls == 4    \* roll_hash calls made on one RollingHash
MaxLive == 2     \* longest byte source of a diff_and_update call followed to its end
MaxChars == 3    \* longest string, in characters, with multi-byte characters
LongLen == 24    \* length of the one long window given to RollingHash::new

Byte == 0..MaxByte
Sources == UNION {[1..n -> Byte] : n \in 0..MaxLen}
BlockSizes == 1..MaxBlock

Min(x, y) == IF x < y THEN x ELSE y
Max(x, y) == IF x > y THEN x ELSE y
SetMin(S) == CHOOSE x \in S : \A y \in S : x <= y

\* Option<T>: None is the empty sequence, Some(x) the one-element sequence.
None == <<>>
Some(x) == <<x>>
Drop(s, n) == SubSeq(s, n + 1, Len(s))
Take(s, n) == SubSeq(s, 1, n)

\* ------------------------------------------------------------ RollingHash
\* u16 arithmetic wraps modulo 2^16.
U16 == 65536
wrapping_add(x, y) == (x + y) % U16
wrapping_sub(x, y) == (x - y) % U16
wrapping_mul(x, y) == (x * y) % U16

RECURSIVE HashFold(_, _, _, _)
HashFold(buffer, k, a, b) ==
    IF k > Len(buffer)
    THEN [a |-> a, b |-> b, block_size |-> Len(buffer)]
    ELSE LET a2 == wrapping_add(a, buffer[k])
         IN HashFold(buffer, k + 1, a2, wrapping_add(b, a2))

\* A hash over initial_data that takes its window to be empty.
RollingHashNewUnsized(initial_data) ==
    [HashFold(initial_data, 1, 0, 0) EXCEPT !.block_size = 0]

RollingHashNew(initial_data) == HashFold(initial_data, 1, 0, 0)

\* (b << 16) | a, kept as its two 16-bit halves <<b, a>>.
get_hash(h) == <<h.b, h.a>>

\* roll_hash that keeps block_size when no byte enters.
roll_hash_keep_size(h, new_byte, old_byte) ==
    LET a1 == wrapping_sub(h.a, old_byte)
        b1 == wrapping_sub(h.b, wrapping_mul(old_byte, h.block_size))
    IN IF new_byte # None
       THEN LET a2 == wrapping_add(a1, new_byte[1])
            IN [a |-> a2, b |-> wrapping_add(b1, a2), block_size |-> h.block_size]
       ELSE [a |-> a1, b |-> b1, block_size |-> h.block_size]

roll_hash(h, new_byte, old_byte) ==
    LET a1 == wrapping_sub(h.a, old_byte)
        b1 == wrapping_sub(h.b, wrapping_mul(old_byte, h.block_size))
    IN IF new_byte # None
       THEN LET a2 == wrapping_add(a1, new_byte[1])
            IN [a |-> a2, b |-> wrapping_add(b1, a2), block_size |-> h.block_size]
       ELSE [a |-> a1, b |-> b1, block_size |-> h.block_size - 1]

hash_buffer(buffer) == get_hash(HashFold(buffer, 1, 0, 0))

\* ------------------------------------------------------------------- Md5
\* The strong hasher's state is the input fed since the last reset; the
\* 16-byte result is idealised as collision free.
Md5New == <<>>
Md5Input(hasher, bytes) == hasher \o bytes
Md5Result(hasher) == <<"md5", hasher>>
StrongHashOf(bytes) == Md5Result(Md5Input(Md5New, bytes))

\* ---------------------------------------------------------------- reader
ReaderNew(data) == [data |-> data, pos |-> 0]
\* read(&mut buf) with |buf| = cap: the bytes read and the reader afterwards.
ReadChunk(reader, cap) ==
    SubSeq(reader.data, reader.pos + 1, Min(reader.pos + cap, Len(reader.data)))
ReadAdvance(reader, cap) ==
    [reader EXCEPT !.pos = Min(reader.pos + cap, Len(reader.data))]

\* ---------------------------------------------------------------- Window
WindowNew(data, block_size) ==
    LET r0 == ReaderNew(data)
        front == ReadChunk(r0, block_size)
        r1 == ReadAdvance(r0, block_size)
        back == ReadChunk(r1, block_size)
        r2 == ReadAdvance(r1, block_size)
    IN [front |-> front, back |-> back, block_size |-> block_size,
        offset |-> 0, reader |-> r2, bytes_read |-> 0]

\* get_head looking one byte too far into the back buffer.
get_head_one_further(w) ==
    LET head_index == w.offset + w.block_size - Len(w.front) + 1
    IN IF head_index >= Len(w.back) THEN None ELSE Some(w.back[head_index + 1])

get_head(w) ==
    LET head_index == w.offset + w.block_size - Len(w.front)
    IN IF head_index >= Len(w.back) THEN None ELSE Some(w.back[head_index + 1])

load_next_block(w) ==
    [w EXCEPT !.front = w.back,
              !.back = ReadChunk(w.reader, w.block_size),
              !.reader = ReadAdvance(w.reader, w.block_size),
              !.offset = 0]

\* load_next_block when the read fails: back was already replaced by a
\* zeroed buffer and promoted to front, offset is not reset.
load_next_block_failed(w) ==
    [w EXCEPT !.front = w.back,
              !.back = [k \in 1..w.block_size |-> 0]]

\* Whether advance() goes to the reader.
advance_reads(w) ==
    Len(w.front) # 0 /\ w.offset >= Len(w.front) /\ Len(w.back) # 0

\* advance() that hands out (tail, head) and leaves offset and bytes_read.
advance_in_place(w, read_ok) ==
    IF Len(w.front) = 0
    THEN [window |-> w, tail |-> None, head |-> None, err |-> FALSE]
    ELSE IF w.offset >= Len(w.front) /\ Len(w.back) = 0
    THEN [window |-> w, tail |-> None, head |-> None, err |-> FALSE]
    ELSE IF w.offset >= Len(w.front) /\ ~read_ok
    THEN [window |-> load_next_block_failed(w), tail |-> None, head |-> None,
          err |-> TRUE]
    ELSE LET w1 == IF w.offset >= Len(w.front) THEN load_next_block(w) ELSE w
         IN [window |-> w1, tail |-> Some(w1.front[w1.offset + 1]),
             head |-> get_head(w1), err |-> FALSE]

\* advance(): the window afterwards, (tail, head), and whether it failed.
advance(w, read_ok) ==
    IF Len(w.front) = 0
    THEN [window |-> w, tail |-> None, head |-> None, err |-> FALSE]
    ELSE IF w.offset >= Len(w.front) /\ Len(w.back) = 0
    THEN [window |-> w, tail |-> None, head |-> None, err |-> FALSE]
    ELSE IF w.offset >= Len(w.front) /\ ~read_ok
    THEN [window |-> load_next_block_failed(w), tail |-> None, head |-> None,
          err |-> TRUE]
    ELSE LET w1 == IF w.offset >= Len(w.front) THEN load_next_block(w) ELSE w
             tail == w1.front[w1.offset + 1]
             head == get_head(w1)
         IN [window |-> [w1 EXCEPT !.offset = @ + 1, !.bytes_read = @ + 1],
             tail |-> Some(tail), head |-> head, err |-> FALSE]

\* frame taking the whole back buffer as its second slice.
frame_whole_back(w) ==
    LET front_offset == Min(w.offset, Len(w.front))
    IN <<Drop(w.front, front_offset), w.back>>

frame(w) ==
    LET front_offset == Min(w.offset, Len(w.front))
        back_offset == Min(w.offset, Len(w.back))
    IN <<Drop(w.front, front_offset), Take(w.back, back_offset)>>

\* frame_size counting the front buffer alone.
frame_size_front_only(w) == Len(w.front) - w.offset

frame_size(w) == Len(w.front) + Len(w.back) - w.offset

\* on_boundry recognising the start of the first block alone.
on_boundry_first_only(w) == w.offset = 0

on_boundry(w) == w.offset = 0 \/ w.offset = Len(w.front)

\* The place within the front buffer given out as the bytes read.
get_bytes_read_in_block(w) == w.offset

get_bytes_read(w) == w.bytes_read

\* ------------------------------------------------------------------ Diff
DiffNew == [inserts |-> <<>>, deletes |-> <<>>]

\* add_insert merging when the last insert starts at position.
add_insert_merges_at_start(diff, position, data) ==
    LET n == Len(diff.inserts)
    IN IF n > 0 /\ diff.inserts[n].position = position
       THEN [diff EXCEPT !.inserts[n].data = @ \o data]
       ELSE [diff EXCEPT !.inserts = Append(@, [position |-> position, data |-> data])]

add_insert(diff, position, data) ==
    LET n == Len(diff.inserts)
    IN IF n > 0 /\ diff.inserts[n].position + Len(diff.inserts[n].data) = position
       THEN [diff EXCEPT !.inserts[n].data = @ \o data]
       ELSE [diff EXCEPT !.inserts = Append(@, [position |-> position, data |-> data])]

add_delete(diff, position, len) ==
    LET n == Len(diff.deletes)
    IN IF n > 0 /\ diff.deletes[n].position = position
       THEN [diff EXCEPT !.deletes[n].len = @ + len]
       ELSE [diff EXCEPT !.deletes = Append(@, [position |-> position, len |-> len])]

is_empty(diff) == Len(diff.deletes) = 0 /\ Len(diff.inserts) = 0

\* The insert pass of apply_to_string: old_bytes is what is left of the old
\* stream, new_bytes the output so far. unwrap() on an exhausted stream panics.
RECURSIVE ApplyInserts(_, _, _, _, _)
ApplyInserts(inserts, k, old_bytes, new_bytes, index) ==
    IF k > Len(inserts)
    THEN [panic |-> FALSE, bytes |-> new_bytes \o old_bytes]
    ELSE LET ins == inserts[k]
             need == IF index < ins.position THEN ins.position - index ELSE 0
         IN IF need > Len(old_bytes)
            THEN [panic |-> TRUE, bytes |-> <<>>]
            ELSE ApplyInserts(inserts, k + 1, Drop(old_bytes, need),
                              new_bytes \o Take(old_bytes, need) \o ins.data,
                              index + need + Len(ins.data))

\* A delete pass whose index counts the bytes deleted as well as those kept.
RECURSIVE ApplyDeletesCountingDeleted(_, _, _, _, _)
ApplyDeletesCountingDeleted(deletes, k, old_bytes, new_bytes, index) ==
    IF k > Len(deletes)
    THEN [panic |-> FALSE, bytes |-> new_bytes \o old_bytes]
    ELSE LET del == deletes[k]
             need == IF index < del.position THEN del.position - index ELSE 0
         IN IF need > Len(old_bytes)
            THEN [panic |-> TRUE, bytes |-> <<>>]
            ELSE ApplyDeletesCountingDeleted(
                     deletes, k + 1, Drop(old_bytes, need + del.len),
                     new_bytes \o Take(old_bytes, need),
                     index + need + del.len)

\* The delete pass: index counts the bytes kept, a delete past the end of
\* the stream removes what is there.
RECURSIVE ApplyDeletes(_, _, _, _, _)
ApplyDeletes(deletes, k, old_bytes, new_bytes, index) ==
    IF k > Len(deletes)
    THEN [panic |-> FALSE, bytes |-> new_bytes \o old_bytes]
    ELSE LET del == deletes[k]
             need == IF index < del.position THEN del.position - index ELSE 0
         IN IF need > Len(old_bytes)
            THEN [panic |-> TRUE, bytes |-> <<>>]
            ELSE ApplyDeletes(deletes, k + 1, Drop(old_bytes, need + del.len),
                              new_bytes \o Take(old_bytes, need),
                              index + need)

\* An application that stops after the insert pass.
apply_to_string_inserts_only(diff, string) ==
    ApplyInserts(diff.inserts, 1, string, <<>>, 0)

apply_to_string(diff, string) ==
    LET mid == ApplyInserts(diff.inserts, 1, string, <<>>, 0)
    IN IF mid.panic THEN mid
       ELSE ApplyDeletes(diff.deletes, 1, mid.bytes, <<>>, 0)

\* ----------------------------------------------------------- BlockHashes
\* HashMap<u32, Vec<(usize, [u8; 16])>>: a function from the weak hashes
\* present to the list of <<block index, strong hash>> of their bucket.
EmptyMap == <<>>

\* hashes.entry(weak).or_insert(Vec::new()).push(entry)
PushEntry(hashes, weak, entry) ==
    IF weak \in DOMAIN hashes
    THEN [hashes EXCEPT ![weak] = Append(@, entry)]
    ELSE [w \in (DOMAIN hashes) \cup {weak} |->
             IF w = weak THEN <<entry>> ELSE hashes[w]]

RECURSIVE NewLoop(_, _, _, _)
NewLoop(reader, block_size, block_index, hashes) ==
    LET block == ReadChunk(reader, block_size)
    IN IF Len(block) = 0
       THEN [hashes |-> hashes, block_size |-> block_size, file_size |-> reader.pos]
       ELSE NewLoop(ReadAdvance(reader, block_size), block_size, block_index + 1,
                    PushEntry(hashes, hash_buffer(block),
                              <<block_index, StrongHashOf(block)>>))

BlockHashesNew(data_source, block_size) ==
    NewLoop(ReaderNew(data_source), block_size, 0, EmptyMap)

BlockHashesEmpty(block_size) ==
    [hashes |-> EmptyMap, block_size |-> block_size, file_size |-> 0]

\* hash_match: the index of the first entry of the bucket whose strong hash is
\* that of the frame, whatever its index; the strong hasher keeps the frame's
\* hash when the bucket exists.
hash_match(self, weak_hasher, strong_hasher, w) ==
    LET key == get_hash(weak_hasher)
    IN IF key \notin DOMAIN self.hashes
       THEN [index |-> None, strong_hasher |-> strong_hasher]
       ELSE LET matches == self.hashes[key]
                hashed == Md5Input(Md5Input(Md5New, frame(w)[1]), frame(w)[2])
                hits == {k \in 1..Len(matches) : matches[k][2] = Md5Result(hashed)}
            IN [index |-> IF hits = {} THEN None ELSE Some(matches[SetMin(hits)][1]),
                strong_hasher |-> IF Len(matches) > 0 THEN hashed ELSE strong_hasher]

check_match(self, weak_hasher, strong_hasher, w, last_index) ==
    LET m == hash_match(self, weak_hasher, strong_hasher, w)
    IN IF m.index # None /\ m.index[1] > last_index
       THEN m
       ELSE [m EXCEPT !.index = None]

\* The block loop of verify_unchanged: a block whose weak hash has no bucket
\* is passed over.
RECURSIVE VerifyLoop(_, _, _)
VerifyLoop(self, reader, block_index) ==
    LET block == ReadChunk(reader, self.block_size)
        weak_hash == hash_buffer(block)
    IN IF Len(block) = 0
       THEN reader.pos = self.file_size
       ELSE IF weak_hash \in DOMAIN self.hashes
               /\ \A k \in 1..Len(self.hashes[weak_hash]) :
                     self.hashes[weak_hash][k] # <<block_index, StrongHashOf(block)>>
       THEN FALSE
       ELSE VerifyLoop(self, ReadAdvance(reader, self.block_size), block_index + 1)

\* verify_unchanged numbering the blocks from one.
verify_unchanged_from_one(self, data_source) ==
    VerifyLoop(self, ReaderNew(data_source), 1)

verify_unchanged(self, data_source) ==
    VerifyLoop(self, ReaderNew(data_source), 0)

\* ---------------------------------------------------------------- codecs
\* An encoded stream is a sequence of bytes. The bytes of a u32 are numbers;
\* byte k of a 16-byte strong hash h is the pair <<h, k>>, so that a decoded
\* buffer is h again only when all its bytes come from h, in place.
StrongLen == 16
ZeroHash == <<"zero", <<>>>>                 \* [0u8; 16]
IntBuf == <<0, 0, 0, 0>>                     \* [0; 4]

\* NetworkEndian::write_u32 / read_u32
write_u32(v) ==
    <<(v \div 16777216) % 256, (v \div 65536) % 256, (v \div 256) % 256, v % 256>>
read_u32(buf) == ((buf[1] * 256 + buf[2]) * 256 + buf[3]) * 256 + buf[4]

\* The same for a weak hash, kept as the pair <<b, a>> of its 16-bit halves.
\* A writer that keeps the low half of the weak hash only.
write_weak_low_half(weak) == <<0, 0, weak[2] \div 256, weak[2] % 256>>

write_weak(weak) ==
    <<weak[1] \div 256, weak[1] % 256, weak[2] \div 256, weak[2] % 256>>
read_weak(buf) == <<buf[1] * 256 + buf[2], buf[3] * 256 + buf[4]>>

StrongBytes(strong_hash) == [k \in 1..StrongLen |-> <<strong_hash, k>>]
StrongFromBytes(buf) ==
    IF \A k \in 1..StrongLen : buf[k] = <<buf[1][1], k>>
    THEN buf[1][1]
    ELSE <<"mixed", buf>>

\* reader.read(&mut buf): the buffer afterwards. A short read leaves the rest
\* of the buffer as it was; the count returned is not looked at.
ReadInto(reader, buf) ==
    LET chunk == ReadChunk(reader, Len(buf)) IN chunk \o Drop(buf, Len(chunk))

\* reader.read_exact(&mut buf) succeeds only if the whole buffer can be filled.
ReadExactOk(reader, cap) == reader.pos + cap <= Len(reader.data)

\* The entries of every bucket with their weak hash: <<weak, index, strong>>.
AllEntries(self) ==
    UNION {{<<weak, self.hashes[weak][k][1], self.hashes[weak][k][2]>> :
               k \in 1..Len(self.hashes[weak])} : weak \in DOMAIN self.hashes}

BlockCount(file_size, block_size) == (file_size + block_size - 1) \div block_size

\* sequential_hashes: slot index holds the entry stored with that index, or
\* (0, dummy_hash). Where several entries carry one index the map's iteration
\* order decides; any of them is taken here.
SequentialHashes(self) ==
    [slot \in 1..BlockCount(self.file_size, self.block_size) |->
        LET here == {e \in AllEntries(self) : e[2] = slot - 1}
        IN IF here = {} THEN <<<<0, 0>>, ZeroHash>>
           ELSE LET e == CHOOSE e \in here : TRUE IN <<e[1], e[3]>>]

RECURSIVE WriteHashes(_, _)
WriteHashes(sequential_hashes, k) ==
    IF k > Len(sequential_hashes) THEN <<>>
    ELSE write_weak(sequential_hashes[k][1]) \o StrongBytes(sequential_hashes[k][2])
         \o WriteHashes(sequential_hashes, k + 1)

\* BlockHashes::compress_to into a Vec<u8>: [panic, bytes]. An entry whose
\* index is not below block_count is an index out of bounds.
BlockHashesCompressTo(self) ==
    IF \E e \in AllEntries(self) : e[2] >= BlockCount(self.file_size, self.block_size)
    THEN [panic |-> TRUE, bytes |-> <<>>]
    ELSE [panic |-> FALSE,
          bytes |-> write_u32(self.file_size) \o write_u32(self.block_size)
                    \o WriteHashes(SequentialHashes(self), 1)]

RECURSIVE ExpandLoop(_, _, _, _, _, _)
ExpandLoop(reader, int_buf, strong_hash, block_index, block_count, hashes) ==
    IF block_index >= block_count THEN hashes
    ELSE LET int_buf2 == ReadInto(reader, int_buf)
             reader2 == ReadAdvance(reader, Len(int_buf))
             strong2 == ReadInto(reader2, strong_hash)
             reader3 == ReadAdvance(reader2, StrongLen)
         IN ExpandLoop(reader3, int_buf2, strong2, block_index + 1, block_count,
                       PushEntry(hashes, read_weak(int_buf2),
                                 <<block_index, StrongFromBytes(strong2)>>))

\* BlockHashes::expand_from a Cursor over data: kind is "ok" or "panic" (a
\* block size of 0 divides by zero); no read of a Cursor returns Err.
BlockHashesExpandFrom(data) ==
    LET reader == ReaderNew(data)
        buf1 == ReadInto(reader, IntBuf)
        reader1 == ReadAdvance(reader, Len(IntBuf))
        file_size == read_u32(buf1)
        buf2 == ReadInto(reader1, buf1)
        reader2 == ReadAdvance(reader1, Len(IntBuf))
        block_size == read_u32(buf2)
    IN IF block_size = 0
       THEN [kind |-> "panic", value |-> None]
       ELSE [kind |-> "ok",
             value |-> [hashes |-> ExpandLoop(reader2, buf2, StrongBytes(ZeroHash), 0,
                                              BlockCount(file_size, block_size),
                                              EmptyMap),
                        block_size |-> block_size,
                        file_size |-> file_size]]

InsertCompressTo(ins) ==
    write_u32(ins.position) \o write_u32(Len(ins.data)) \o ins.data

\* A writer that puts the length before the position.
DeleteCompressToLenFirst(del) == write_u32(del.len) \o write_u32(del.position)

DeleteCompressTo(del) == write_u32(del.position) \o write_u32(del.len)

RECURSIVE CompressInserts(_, _)
CompressInserts(inserts, k) ==
    IF k > Len(inserts) THEN <<>>
    ELSE InsertCompressTo(inserts[k]) \o CompressInserts(inserts, k + 1)

RECURSIVE CompressDeletes(_, _)
CompressDeletes(deletes, k) ==
    IF k > Len(deletes) THEN <<>>
    ELSE DeleteCompressTo(deletes[k]) \o CompressDeletes(deletes, k + 1)

\* Diff::compress_to into a Vec<u8>.
DiffCompressTo(diff) ==
    write_u32(Len(diff.inserts)) \o CompressInserts(diff.inserts, 1)
    \o write_u32(Len(diff.deletes)) \o CompressDeletes(diff.deletes, 1)

\* Insert::expand_from: [ok, value, reader].
InsertExpandFrom(reader) ==
    IF ~ReadExactOk(reader, 8)
    THEN [ok |-> FALSE, value |-> None, reader |-> reader]
    ELSE LET position == read_u32(ReadChunk(reader, 4))
             reader1 == ReadAdvance(reader, 4)
             data_len == read_u32(ReadChunk(reader1, 4))
             reader2 == ReadAdvance(reader1, 4)
         IN IF ~ReadExactOk(reader2, data_len)
            THEN [ok |-> FALSE, value |-> None, reader |-> reader2]
            ELSE [ok |-> TRUE,
                  value |-> [position |-> position,
                             data |-> ReadChunk(reader2, data_len)],
                  reader |-> ReadAdvance(reader2, data_len)]

\* Delete::expand_from: [ok, value, reader].
DeleteExpandFrom(reader) ==
    IF ~ReadExactOk(reader, 8)
    THEN [ok |-> FALSE, value |-> None, reader |-> reader]
    ELSE LET position == read_u32(ReadChunk(reader, 4))
             reader1 == ReadAdvance(reader, 4)
             len == read_u32(ReadChunk(reader1, 4))
         IN [ok |-> TRUE, value |-> [position |-> position, len |-> len],
             reader |-> ReadAdvance(reader1, 4)]

\* (0..insert_len).map(|_| Insert::expand_from(reader).unwrap()).collect():
\* [panic, ops, reader].
RECURSIVE ExpandInserts(_, _, _)
ExpandInserts(reader, count, ops) ==
    IF count = 0 THEN [panic |-> FALSE, ops |-> ops, reader |-> reader]
    ELSE LET got == InsertExpandFrom(reader)
         IN IF ~got.ok THEN [panic |-> TRUE, ops |-> ops, reader |-> got.reader]
            ELSE ExpandInserts(got.reader, count - 1, Append(ops, got.value))

\* (0..delete_len).map(|_| Delete::expand_from(reader).unwrap()).collect()
RECURSIVE ExpandDeletes(_, _, _)
ExpandDeletes(reader, count, ops) ==
    IF count = 0 THEN [panic |-> FALSE, ops |-> ops, reader |-> reader]
    ELSE LET got == DeleteExpandFrom(reader)
         IN IF ~got.ok THEN [panic |-> TRUE, ops |-> ops, reader |-> got.reader]
            ELSE ExpandDeletes(got.reader, count - 1, Append(ops, got.value))

\* Diff::expand_from a Cursor over data: kind is "ok", "err" or "panic".
DiffExpandFrom(data) ==
    LET reader == ReaderNew(data)
        Err == [kind |-> "err", value |-> None]
        Panic == [kind |-> "panic", value |-> None]
    IN IF ~ReadExactOk(reader, 4) THEN Err
       ELSE LET insert_len == read_u32(ReadChunk(reader, 4))
                ins == ExpandInserts(ReadAdvance(reader, 4), insert_len, <<>>)
            IN IF ins.panic THEN Panic
               ELSE IF ~ReadExactOk(ins.reader, 4) THEN Err
               ELSE LET delete_len == read_u32(ReadChunk(ins.reader, 4))
                        del == ExpandDeletes(ReadAdvance(ins.reader, 4), delete_len,
                                             <<>>)
                    IN IF del.panic THEN Panic
                       ELSE [kind |-> "ok",
                             value |-> [inserts |-> ins.ops, deletes |-> del.ops]]

\* ------------------------------------------------------------ string_diff
\* A &str is its UTF-8 bytes; a char is the bytes that encode it.
IsContinuation(byte) == byte >= 128 /\ byte < 192

\* Whether byte offset k of s lies between two characters.
IsCharBoundary(s, k) ==
    k = 0 \/ k = Len(s) \/ (k > 0 /\ k < Len(s) /\ ~IsContinuation(s[k + 1]))

\* s[a..b] panics unless a <= b <= s.len() and both lie on character boundaries.
SliceOk(s, a, b) ==
    a >= 0 /\ a <= b /\ b <= Len(s) /\ IsCharBoundary(s, a) /\ IsCharBoundary(s, b)
Slice(s, a, b) == SubSeq(s, a + 1, b)

RECURSIVE CharWidth(_, _)
CharWidth(s, k) ==
    IF k < Len(s) /\ IsContinuation(s[k + 1]) THEN CharWidth(s, k + 1) ELSE k

\* s.chars()
RECURSIVE Chars(_)
Chars(s) ==
    IF s = <<>> THEN <<>>
    ELSE LET n == CharWidth(s, 1) IN <<Take(s, n)>> \o Chars(Drop(s, n))

\* s.chars().rev().collect::<String>()
RECURSIVE RevChars(_)
RevChars(cs) ==
    IF cs = <<>> THEN <<>> ELSE RevChars(Tail(cs)) \o Head(cs)
Reversed(s) == RevChars(Chars(s))

\* chars.position(|c| c == wanted), counted from 0.
Position(cs, wanted) ==
    LET hits == {k \in 1..Len(cs) : cs[k] = wanted}
    IN IF hits = {} THEN None ELSE Some(SetMin(hits) - 1)

\* The EditDistance scorer.
insert_score(c) == -1
\* A scorer under which a delete costs more than a replacement.
delete_score_dear(c) == -3
delete_score(c) == -1
\* A scorer under which replacing a character is as cheap as keeping it.
substitution_score_free(old_char, new_char) == 0
substitution_score(old_char, new_char) == -2
match_score(c) == 0

\* First row of nw_score: the cumulative insert scores.
RECURSIVE FirstRow(_, _)
FirstRow(new_chars, k) ==
    IF k = 0 THEN <<0>>
    ELSE LET prev == FirstRow(new_chars, k - 1)
         IN Append(prev, prev[k] + insert_score(new_chars[k]))

\* One row of nw_score, for old_char, left to right.
RECURSIVE ThisRow(_, _, _, _)
ThisRow(last_row, old_char, new_chars, k) ==
    IF k = 0 THEN <<last_row[1] + delete_score(old_char)>>
    ELSE LET this_row == ThisRow(last_row, old_char, new_chars, k - 1)
             new_char == new_chars[k]
             score_sub == last_row[k] + (IF old_char = new_char
                                         THEN match_score(old_char)
                                         ELSE substitution_score(old_char, new_char))
             score_del == last_row[k + 1] + delete_score(old_char)
             score_ins == this_row[k] + insert_score(new_char)
         IN Append(this_row, Max(Max(score_sub, score_del), score_ins))

RECURSIVE NwRows(_, _, _, _)
NwRows(old_chars, new_chars, k, last_row) ==
    IF k > Len(old_chars) THEN last_row
    ELSE NwRows(old_chars, new_chars, k + 1,
                ThisRow(last_row, old_chars[k], new_chars, Len(new_chars)))

nw_score(old_str, new_str) ==
    NwRows(Chars(old_str), Chars(new_str), 1,
           FirstRow(Chars(new_str), Len(Chars(new_str))))

\* score_l.zip(score_r.rev()).map(l + r).zip(0..new_len + 1).max().1: the
\* greatest (sum, index) pair in lexicographic order.
SplitIndex(score_l, score_r, new_len) ==
    LET n == Min(Min(Len(score_l), Len(score_r)), new_len + 1)
        sum(k) == score_l[k] + score_r[Len(score_r) + 1 - k]
        best == CHOOSE k \in 1..n :
                    \A j \in 1..n : sum(j) < sum(k) \/ (sum(j) = sum(k) /\ j <= k)
    IN best - 1

Panicked(st) == [st EXCEPT !.panic = TRUE]

do_insert(st, s) ==
    IF st.panic THEN st
    ELSE [st EXCEPT !.diff = add_insert(st.diff, st.insert_index, s),
                    !.insert_index = @ + Len(s)]

\* A delete placed at insert_index, not counting the bytes already deleted.
do_delete_at_insert_index(st, length) ==
    IF st.panic THEN st
    ELSE [st EXCEPT !.diff = add_delete(st.diff, st.insert_index, length),
                    !.delete_index = @ + length,
                    !.insert_index = @ + length]

do_delete(st, length) ==
    IF st.panic THEN st
    ELSE [st EXCEPT !.diff = add_delete(st.diff, st.insert_index - st.delete_index,
                                        length),
                    !.delete_index = @ + length,
                    !.insert_index = @ + length]

\* do_insert!(s[a..b], ..)
insert_slice(st, s, a, b) ==
    IF st.panic THEN st
    ELSE IF ~SliceOk(s, a, b) THEN Panicked(st)
    ELSE do_insert(st, Slice(s, a, b))

skip_one(st) == IF st.panic THEN st ELSE [st EXCEPT !.insert_index = @ + 1]

RECURSIVE hirschberg(_, _, _, _, _)
hirschberg(old_str, new_str, old_rev, new_rev, st) ==
    LET old_len == Len(old_str)
        new_len == Len(new_str)
    IN IF st.panic THEN st
       ELSE IF old_len = 0 THEN do_insert(st, new_str)
       ELSE IF new_len = 0 THEN do_delete(st, old_len)
       ELSE IF old_len = 1
       THEN LET found == Position(Chars(new_str), Chars(old_str)[1])
            IN IF found # None
               THEN LET position == found[1]
                        s1 == IF position > 0
                              THEN insert_slice(st, new_str, 0, position)
                              ELSE st
                        s2 == skip_one(s1)
                    IN IF new_len - position > 1
                       THEN insert_slice(s2, new_str, position + 1, new_len)
                       ELSE s2
               ELSE do_delete(do_insert(st, new_str), 1)
       ELSE IF new_len = 1
       THEN LET found == Position(Chars(old_str), Chars(new_str)[1])
            IN IF found # None
               THEN LET position == found[1]
                        s1 == IF position > 0 THEN do_delete(st, position) ELSE st
                        s2 == skip_one(s1)
                    IN IF old_len - position > 1
                       THEN do_delete(s2, old_len - position - 1)
                       ELSE s2
               ELSE do_delete(do_insert(st, new_str), old_len)
       ELSE LET old_mid == old_len \div 2
            IN IF ~SliceOk(old_str, 0, old_mid)
                  \/ ~SliceOk(old_rev, 0, old_len - old_mid)
               THEN Panicked(st)
               ELSE LET score_l == nw_score(Slice(old_str, 0, old_mid), new_str)
                        score_r == nw_score(Slice(old_rev, 0, old_len - old_mid),
                                            new_rev)
                        new_mid == SplitIndex(score_l, score_r, new_len)
                    IN IF ~SliceOk(new_str, 0, new_mid)
                          \/ ~SliceOk(old_rev, old_len - old_mid, Len(old_rev))
                          \/ ~SliceOk(new_rev, new_len - new_mid, Len(new_rev))
                          \/ ~SliceOk(new_rev, 0, new_len - new_mid)
                       THEN Panicked(st)
                       ELSE hirschberg(
                                Slice(old_str, old_mid, old_len),
                                Slice(new_str, new_mid, new_len),
                                Slice(old_rev, 0, old_len - old_mid),
                                Slice(new_rev, 0, new_len - new_mid),
                                hirschberg(
                                    Slice(old_str, 0, old_mid),
                                    Slice(new_str, 0, new_mid),
                                    Slice(old_rev, old_len - old_mid, Len(old_rev)),
                                    Slice(new_rev, new_len - new_mid, Len(new_rev)),
                                    st))

find_diff(old_str, new_str) ==
    hirschberg(old_str, new_str, Reversed(old_str), Reversed(new_str),
               [diff |-> DiffNew, insert_index |-> 0, delete_index |-> 0,
                panic |-> FALSE])

\* ------------------------------------------------------------ the differ
VARIABLES
    digest,         \* the BlockHashes: [hashes, block_size, file_size]
    old,            \* the bytes the digest was last built from
    origin,         \* what made the digest: "new", "empty" or "diff_and_update"
    pc,             \* "idle", the place of the running diff_and_update, or
                    \* "done" while the caller holds the returned value
    result,         \* what the finished call returned
    entry,          \* the digest as it was when the last call was entered
    \* locals of the running diff_and_update
    window, weak_hasher, strong_hasher, last_matching_block_index,
    insert_buffer, new_hashes, current_block_index, diffs, i

locals == <<window, weak_hasher, strong_hasher, last_matching_block_index,
            insert_buffer, new_hashes, current_block_index, diffs, i>>
dvars == <<digest, old, origin, pc, result, entry, locals>>

\* The strings under refinement (find_diff) and what came back.
VARIABLES
    text_old,       \* the old string given to find_diff
    text_new,       \* the new string given to find_diff
    stage,          \* "ready", "found" once find_diff returned, "applied"
    refined,        \* what find_diff returned: [diff, insert_index, delete_index, panic]
    applied         \* what apply_to_string(text_old) returned for that diff

rvars == <<text_old, text_new, stage, refined, applied>>

\* A script built by hand, and what was done with it.
VARIABLES
    script,         \* the Diff
    s_calls,        \* add_insert / add_delete calls made
    s_stage,        \* "build", "compressed", "expanded" or "applied"
    s_out           \* what the last operation on the script returned

svars == <<script, s_calls, s_stage, s_out>>

\* A window driven directly by its caller.
VARIABLES
    win,            \* the Window
    win_before,     \* the Window before the last advance()
    returned,       \* <<tail, head>> of the last advance()
    advances,       \* advance() calls that returned Ok
    w_stage         \* "run", or "failed" once advance() returned Err

wvars == <<win, win_before, returned, advances, w_stage>>

\* A rolling hash driven directly by its caller.
VARIABLES
    hw,             \* the bytes the caller holds in its window
    hh,             \* the RollingHash
    h_rolls,        \* roll_hash calls made
    h_stage         \* "run" while the hash is driven

hvars == <<hw, hh, h_rolls, h_stage>>

IoError(op) == [kind |-> "io_error", op |-> op]

\* A failed call that leaves the hashes gathered so far in self.
OnReadErrorInstalls(self, partial_hashes) == [self EXCEPT !.hashes = partial_hashes]

\* try! on a failed read returns from diff_and_update before the new hashes
\* are assigned to self: the digest stays as it is.
OnReadError(self, partial_hashes) == self

\* The old block count rounded down.
OldBlockCountFloor(self) == self.file_size \div self.block_size

\* (self.file_size + self.block_size - 1) as i32 / self.block_size as i32
OldBlockCount(self) == (self.file_size + self.block_size - 1) \div self.block_size

\* A trailing delete that counts every old block left as a whole block.
TrailingDeleteWholeBlocks(self, last_index) ==
    (OldBlockCount(self) - last_index - 1) * self.block_size

\* self.file_size as i32 - (last_matching_block_index + 1) * self.block_size as i32
TrailingDelete(self, last_index) ==
    self.file_size - (last_index + 1) * self.block_size

NoResult == [kind |-> "none"]

DifferInit ==
    /\ old \in Sources
    /\ \E block_size \in BlockSizes :
          \/ digest = BlockHashesNew(old, block_size) /\ origin = "new"
          \/ old = <<>> /\ digest = BlockHashesEmpty(block_size) /\ origin = "empty"
    /\ pc = "idle"
    /\ result = NoResult
    /\ entry = digest
    /\ window = WindowNew(<<>>, digest.block_size)
    /\ weak_hasher = RollingHashNew(<<>>)
    /\ strong_hasher = Md5New
    /\ last_matching_block_index = -1
    /\ insert_buffer = <<>>
    /\ new_hashes = EmptyMap
    /\ current_block_index = 0
    /\ diffs = DiffNew
    /\ i = 0

\* diff_and_update up to the head of the main loop (hashing.rs 141-148).
DiffStart(new_data) ==
    /\ pc = "idle"
    /\ window' = WindowNew(new_data, digest.block_size)
    /\ weak_hasher' = RollingHashNew(frame(window')[1])
    /\ strong_hasher' = Md5New
    /\ last_matching_block_index' = -1
    /\ insert_buffer' = <<>>
    /\ new_hashes' = EmptyMap
    /\ current_block_index' = 0
    /\ diffs' = DiffNew
    /\ i' = 0
    /\ pc' = "loop"
    /\ entry' = digest
    /\ UNCHANGED <<digest, old, origin, result>>
    /\ UNCHANGED <<rvars, svars, wvars, hvars>>

\* One of the two reads of Window::new fails: try! returns the error.
DiffStartFail ==
    /\ pc = "idle"
    /\ result' = IoError("diff_and_update")
    /\ pc' = "done"
    /\ entry' = digest
    /\ digest' = OnReadError(digest, new_hashes)
    /\ UNCHANGED <<old, origin, locals>>
    /\ UNCHANGED <<rvars, svars, wvars, hvars>>

\* A block recorded under the index that follows its own.
RecordBlockNextIndex(hashes, weak, block_index, hasher) ==
    PushEntry(hashes, get_hash(weak), <<block_index + 1, Md5Result(hasher)>>)

\* The block recorded into new_hashes at a boundary.
RecordBlock(hashes, weak, block_index, hasher) ==
    PushEntry(hashes, get_hash(weak), <<block_index, Md5Result(hasher)>>)

\* The buffered bytes become an insert whether or not there are any.
FlushInsertAlways(diff, w, buffer) ==
    add_insert(diff, get_bytes_read(w) - Len(buffer), buffer)

\* if insert_buffer.len() > 0 { diffs.add_insert(bytes_read - len, buffer) }
FlushInsert(diff, w, buffer) ==
    IF Len(buffer) > 0
    THEN add_insert(diff, get_bytes_read(w) - Len(buffer), buffer)
    ELSE diff

FrameInput(w) == Md5Input(Md5Input(Md5New, frame(w)[1]), frame(w)[2])

\* An iteration of the main loop whose probe finds no match (193-211).
Miss(read_ok) ==
    /\ pc = "loop"
    /\ frame_size(window) > 0
    /\ LET m == check_match(digest, weak_hasher, strong_hasher, window,
                            last_matching_block_index)
           adv == advance(window, read_ok)
       IN /\ m.index = None
          /\ read_ok \/ advance_reads(window)
          /\ IF on_boundry(window)
             THEN /\ strong_hasher' = FrameInput(window)
                  /\ new_hashes' = RecordBlock(new_hashes, weak_hasher,
                                               current_block_index, strong_hasher')
                  /\ current_block_index' = current_block_index + 1
             ELSE /\ strong_hasher' = m.strong_hasher
                  /\ UNCHANGED <<new_hashes, current_block_index>>
          /\ window' = adv.window
          /\ IF adv.err
             THEN /\ pc' = "done"
                  /\ result' = IoError("diff_and_update")
                  /\ digest' = OnReadError(digest, new_hashes')
                  /\ UNCHANGED <<weak_hasher, insert_buffer>>
             ELSE IF adv.tail = None
             THEN \* tail.unwrap() on None
                  /\ pc' = "panic"
                  /\ UNCHANGED <<digest, result, weak_hasher, insert_buffer>>
             ELSE /\ pc' = "loop"
                  /\ weak_hasher' = roll_hash(weak_hasher, adv.head, adv.tail[1])
                  /\ insert_buffer' = Append(insert_buffer, adv.tail[1])
                  /\ UNCHANGED <<digest, result>>
    /\ UNCHANGED <<old, origin, entry, last_matching_block_index, diffs, i>>
    /\ UNCHANGED <<rvars, svars, wvars, hvars>>

\* An iteration whose probe finds a match, up to the inner loop (151-163).
Match ==
    /\ pc = "loop"
    /\ frame_size(window) > 0
    /\ LET m == check_match(digest, weak_hasher, strong_hasher, window,
                            last_matching_block_index)
           other_block_index == m.index[1]
           d1 == FlushInsert(diffs, window, insert_buffer)
           d2 == IF other_block_index > last_matching_block_index + 1
                 THEN add_delete(d1, get_bytes_read(window),
                                 digest.block_size *
                                   (other_block_index - last_matching_block_index - 1))
                 ELSE d1
       IN /\ m.index # None
          /\ strong_hasher' = m.strong_hasher
          /\ diffs' = d2
          /\ insert_buffer' = <<>>
          /\ last_matching_block_index' = other_block_index
    /\ i' = 0
    /\ pc' = "advance"
    /\ UNCHANGED <<digest, old, origin, result, entry, window, weak_hasher,
                   new_hashes, current_block_index>>
    /\ UNCHANGED <<rvars, svars, wvars, hvars>>

\* One pass of `for i in 0..self.block_size` after a match (164-191).
AdvanceStep(read_ok) ==
    /\ pc = "advance"
    /\ IF on_boundry(window) /\ frame_size(window) = 0
       THEN \* past the end of the data: break
            /\ read_ok
            /\ pc' = "loop"
            /\ UNCHANGED <<digest, result, locals>>
       ELSE LET adv == advance(window, read_ok)
            IN /\ read_ok \/ advance_reads(window)
               /\ IF on_boundry(window)
                  THEN /\ strong_hasher' = IF i # 0 THEN FrameInput(window)
                                           ELSE strong_hasher
                       /\ new_hashes' = RecordBlock(new_hashes, weak_hasher,
                                                    current_block_index, strong_hasher')
                       /\ current_block_index' = current_block_index + 1
                  ELSE UNCHANGED <<strong_hasher, new_hashes, current_block_index>>
               /\ window' = adv.window
               /\ IF adv.err
                  THEN /\ pc' = "done"
                       /\ result' = IoError("diff_and_update")
                       /\ digest' = OnReadError(digest, new_hashes')
                       /\ UNCHANGED <<weak_hasher, i>>
                  ELSE IF adv.tail = None
                  THEN \* break
                       /\ pc' = "loop"
                       /\ UNCHANGED <<digest, result, weak_hasher, i>>
                  ELSE /\ weak_hasher' = roll_hash(weak_hasher, adv.head, adv.tail[1])
                       /\ i' = i + 1
                       /\ pc' = IF i + 1 < digest.block_size THEN "advance" ELSE "loop"
                       /\ UNCHANGED <<digest, result>>
               /\ UNCHANGED <<last_matching_block_index, insert_buffer, diffs>>
    /\ UNCHANGED <<old, origin, entry>>
    /\ UNCHANGED <<rvars, svars, wvars, hvars>>

\* After the main loop: the last insert and delete, and the new digest is
\* installed (213-222).
Finish ==
    /\ pc = "loop"
    /\ frame_size(window) <= 0
    /\ LET d1 == FlushInsert(diffs, window, insert_buffer)
           old_block_count == OldBlockCount(digest)
           d2 == IF last_matching_block_index + 1 < old_block_count
                 THEN add_delete(d1, get_bytes_read(window),
                                 TrailingDelete(digest, last_matching_block_index))
                 ELSE d1
       IN /\ diffs' = d2
          /\ result' = [kind |-> "diff", diff |-> d2, old |-> old,
                        new |-> window.reader.data, origin |-> origin]
    /\ insert_buffer' = <<>>
    /\ digest' = [digest EXCEPT !.hashes = new_hashes,
                                !.file_size = get_bytes_read(window)]
    /\ old' = window.reader.data
    /\ pc' = "done"
    /\ origin' = "diff_and_update"
    /\ UNCHANGED <<entry, window, weak_hasher, strong_hasher,
                   last_matching_block_index, new_hashes, current_block_index, i>>
    /\ UNCHANGED <<rvars, svars, wvars, hvars>>

\* verify_unchanged(&self, data_source) (228-253).
VerifyUnchanged(data_source) ==
    /\ pc = "idle"
    /\ result' = [kind |-> "verify", source |-> data_source,
                  value |-> verify_unchanged(digest, data_source)]
    /\ pc' = "done"
    /\ entry' = digest
    /\ UNCHANGED <<digest, old, origin, locals>>
    /\ UNCHANGED <<rvars, svars, wvars, hvars>>

\* A read of verify_unchanged fails.
VerifyFail ==
    /\ pc = "idle"
    /\ result' = IoError("verify_unchanged")
    /\ pc' = "done"
    /\ entry' = digest
    /\ UNCHANGED <<digest, old, origin, locals>>
    /\ UNCHANGED <<rvars, svars, wvars, hvars>>

\* The caller takes the returned value; the call's locals are gone.
TakeResult ==
    /\ pc = "done"
    /\ pc' = "idle"
    /\ result' = NoResult
    /\ window' = WindowNew(<<>>, digest.block_size)
    /\ weak_hasher' = RollingHashNew(<<>>)
    /\ strong_hasher' = Md5New
    /\ last_matching_block_index' = -1
    /\ insert_buffer' = <<>>
    /\ new_hashes' = EmptyMap
    /\ current_block_index' = 0
    /\ diffs' = DiffNew
    /\ i' = 0
    /\ entry' = digest
    /\ UNCHANGED <<digest, old, origin>>
    /\ UNCHANGED <<rvars, svars, wvars, hvars>>

\* compress_to(&self, &mut Vec<u8>) (257-279).
CompressTo ==
    /\ pc = "idle"
    /\ result' = [kind |-> "compressed", out |-> BlockHashesCompressTo(digest)]
    /\ pc' = "done"
    /\ entry' = digest
    /\ UNCHANGED <<digest, old, origin, locals>>
    /\ UNCHANGED <<rvars, svars, wvars, hvars>>

\* expand_from(&mut Cursor) over the first len bytes of what compress_to
\* wrote (283-305).
ExpandFrom(len) ==
    /\ pc = "done"
    /\ result.kind = "compressed"
    /\ ~result.out.panic
    /\ len <= Len(result.out.bytes)
    /\ result' = [kind |-> "expanded", bytes |-> result.out.bytes, len |-> len,
                  out |-> BlockHashesExpandFrom(Take(result.out.bytes, len))]
    /\ UNCHANGED <<digest, old, origin, pc, entry, locals>>
    /\ UNCHANGED <<rvars, svars, wvars, hvars>>

\* The longest encoding of a digest within the bounds.
MaxEncoded == 8 + (4 + StrongLen) * MaxLen

DifferNext ==
    \/ CompressTo
    \/ \E len \in 0..MaxEncoded : ExpandFrom(len)
    \/ \E new_data \in Sources : DiffStart(new_data)
    \/ DiffStartFail
    \/ \E read_ok \in BOOLEAN : Miss(read_ok)
    \/ Match
    \/ \E read_ok \in BOOLEAN : AdvanceStep(read_ok)
    \/ Finish
    \/ \E data_source \in Sources : VerifyUnchanged(data_source)
    \/ VerifyFail
    \/ TakeResult

\* ------------------------------------------------------------ the refiner
Letters == 0..MaxByte
Strings == UNION {[1..n -> Letters] : n \in 0..MaxStr}

RefinerInit ==
    /\ text_old \in Strings
    /\ text_new \in Strings
    /\ stage = "ready"
    /\ refined = None
    /\ applied = None

\* let diff = find_diff(old, new, &EditDistance{});
FindDiff ==
    /\ stage = "ready"
    /\ refined' = find_diff(text_old, text_new)
    /\ stage' = "found"
    /\ UNCHANGED <<text_old, text_new, applied>>
    /\ UNCHANGED <<dvars, svars, wvars, hvars>>

\* diff.apply_to_string(old)
ApplyToString ==
    /\ stage = "found"
    /\ ~refined.panic
    /\ applied' = apply_to_string(refined.diff, text_old)
    /\ stage' = "applied"
    /\ UNCHANGED <<text_old, text_new, refined>>
    /\ UNCHANGED <<dvars, svars, wvars, hvars>>

RefinerNext == FindDiff \/ ApplyToString

\* Strings with a multi-byte character: a one-byte character and U+00E9,
\* whose UTF-8 encoding is the two bytes 195, 169.
Utf8Chars == {<<0>>, <<195, 169>>}

\* chars.collect::<String>()
RECURSIVE Collect(_)
Collect(cs) == IF cs = <<>> THEN <<>> ELSE Head(cs) \o Collect(Tail(cs))

Utf8Strings == {Collect(cs) : cs \in UNION {[1..n -> Utf8Chars] : n \in 0..MaxChars}}

Utf8Init ==
    /\ text_old \in Utf8Strings
    /\ text_new \in Utf8Strings
    /\ stage = "ready"
    /\ refined = None
    /\ applied = None

\* No string is being refined.
RefinerParked ==
    /\ text_old = <<>>
    /\ text_new = <<>>
    /\ stage = "parked"
    /\ refined = None
    /\ applied = None

\* ------------------------------------------------------- scripts by hand
Positions == 0..MaxOps
Lengths == 1..MaxOps
Targets == UNION {[1..n -> Byte] : n \in 0..MaxOps}

ScriptInit ==
    /\ script = DiffNew
    /\ s_calls = 0
    /\ s_stage = "build"
    /\ s_out = None

\* diff.add_insert(position, vec![byte])
AddInsert(position, data) ==
    /\ s_stage = "build"
    /\ s_calls < MaxOps
    /\ script' = add_insert(script, position, data)
    /\ s_calls' = s_calls + 1
    /\ UNCHANGED <<s_stage, s_out>>
    /\ UNCHANGED <<dvars, rvars, wvars, hvars>>

\* diff.add_delete(position, len)
AddDelete(position, len) ==
    /\ s_stage = "build"
    /\ s_calls < MaxOps
    /\ script' = add_delete(script, position, len)
    /\ s_calls' = s_calls + 1
    /\ UNCHANGED <<s_stage, s_out>>
    /\ UNCHANGED <<dvars, rvars, wvars, hvars>>

\* diff.compress_to(&mut Vec<u8>)
CompressScript ==
    /\ s_stage = "build"
    /\ s_out' = DiffCompressTo(script)
    /\ s_stage' = "compressed"
    /\ UNCHANGED <<script, s_calls>>
    /\ UNCHANGED <<dvars, rvars, wvars, hvars>>

\* Diff::expand_from(&mut Cursor) over the first len bytes of the encoding.
ExpandScript(len) ==
    /\ s_stage = "compressed"
    /\ len <= Len(s_out)
    /\ s_out' = [bytes |-> s_out, len |-> len, out |-> DiffExpandFrom(Take(s_out, len))]
    /\ s_stage' = "expanded"
    /\ UNCHANGED <<script, s_calls>>
    /\ UNCHANGED <<dvars, rvars, wvars, hvars>>

\* diff.apply_to_string(string); the bytes are ASCII, so what is not a panic
\* is Ok.
ApplyScript(string) ==
    /\ s_stage = "build"
    /\ s_out' = [string |-> string, out |-> apply_to_string(script, string)]
    /\ s_stage' = "applied"
    /\ UNCHANGED <<script, s_calls>>
    /\ UNCHANGED <<dvars, rvars, wvars, hvars>>

\* The longest encoding of a script within the bounds.
MaxEncodedScript == 8 + (8 + 1) * MaxOps

ScriptNext ==
    \/ \E position \in Positions, byte \in Byte : AddInsert(position, <<byte>>)
    \/ \E position \in Positions, len \in Lengths : AddDelete(position, len)
    \/ CompressScript
    \/ \E len \in 0..MaxEncodedScript : ExpandScript(len)
    \/ \E string \in Targets : ApplyScript(string)

\* No script is being built.
ScriptParked ==
    /\ script = DiffNew
    /\ s_calls = 0
    /\ s_stage = "parked"
    /\ s_out = None

\* ------------------------------------------------------- the window alone
WindowInit ==
    /\ \E data \in Sources, block_size \in BlockSizes :
          win = WindowNew(data, block_size)
    /\ win_before = win
    /\ returned = None
    /\ advances = 0
    /\ w_stage = "run"

\* window.advance(); the caller goes on a little past the end of the data.
Advance(read_ok) ==
    /\ w_stage = "run"
    /\ advances < Len(win.reader.data) + MaxBlock
    /\ read_ok \/ advance_reads(win)
    /\ LET adv == advance(win, read_ok)
       IN /\ win' = adv.window
          /\ win_before' = win
          /\ IF adv.err
             THEN /\ w_stage' = "failed"
                  /\ UNCHANGED <<returned, advances>>
             ELSE /\ returned' = <<adv.tail, adv.head>>
                  /\ advances' = advances + 1
                  /\ UNCHANGED w_stage
    /\ UNCHANGED <<dvars, rvars, svars, hvars>>

WindowNext == \E read_ok \in BOOLEAN : Advance(read_ok)

\* No window is being driven.
WindowParked ==
    /\ win = WindowNew(<<>>, MaxBlock)
    /\ win_before = win
    /\ returned = None
    /\ advances = 0
    /\ w_stage = "parked"

\* ------------------------------------------------- the rolling hash alone
\* The byte values the caller feeds: the two smallest and the largest u8.
HashBytes == {0, 1, 255}
\* The windows a hash is built over: every short one, and one of bytes 255
\* long enough for the b half (the sum of the running sums) to pass 2^16.
HashWindows ==
    UNION {[1..n -> HashBytes] : n \in 1..MaxWin} \cup {[k \in 1..LongLen |-> 255]}

HashInit ==
    /\ hw \in HashWindows
    /\ hh = RollingHashNew(hw)
    /\ h_rolls = 0
    /\ h_stage = "run"

\* hash.roll_hash(new_byte, w[0]): the window loses its first byte and takes
\* new_byte, if there is one, at its end.
RollHash(new_byte) ==
    /\ h_stage = "run"
    /\ h_rolls < MaxRolls
    /\ Len(hw) >= 1
    /\ hh' = roll_hash(hh, new_byte, hw[1])
    /\ hw' = Drop(hw, 1) \o new_byte
    /\ h_rolls' = h_rolls + 1
    /\ UNCHANGED h_stage
    /\ UNCHANGED <<dvars, rvars, svars, wvars>>

HashNext == \E new_byte \in {None} \cup {Some(x) : x \in HashBytes} : RollHash(new_byte)

\* No hash is being driven.
HashParked ==
    /\ hw = <<>>
    /\ hh = RollingHashNew(<<>>)
    /\ h_rolls = 0
    /\ h_stage = "parked"

\* No stream is being diffed.
DifferParked ==
    /\ old = <<>>
    /\ digest = BlockHashesEmpty(MaxBlock)
    /\ origin = "empty"
    /\ pc = "parked"
    /\ result = NoResult
    /\ entry = digest
    /\ window = WindowNew(<<>>, digest.block_size)
    /\ weak_hasher = RollingHashNew(<<>>)
    /\ strong_hasher = Md5New
    /\ last_matching_block_index = -1
    /\ insert_buffer = <<>>
    /\ new_hashes = EmptyMap
    /\ current_block_index = 0
    /\ diffs = DiffNew
    /\ i = 0

vars == <<dvars, rvars, svars, wvars, hvars>>

\* The rolling differ: a digest and the calls made on it.
Init == DifferInit /\ RefinerParked /\ ScriptParked /\ WindowParked /\ HashParked
Next == DifferNext
Spec == Init /\ [][Next]_vars

\* One call of diff_and_update, which runs on once it has started.
LiveSources == UNION {[1..n -> Byte] : n \in 0..MaxLive}

LiveInit ==
    /\ old \in LiveSources
    /\ \E block_size \in BlockSizes :
          \/ digest = BlockHashesNew(old, block_size) /\ origin = "new"
          \/ old = <<>> /\ digest = BlockHashesEmpty(block_size) /\ origin = "empty"
    /\ pc = "idle"
    /\ result = NoResult
    /\ entry = digest
    /\ window = WindowNew(<<>>, digest.block_size)
    /\ weak_hasher = RollingHashNew(<<>>)
    /\ strong_hasher = Md5New
    /\ last_matching_block_index = -1
    /\ insert_buffer = <<>>
    /\ new_hashes = EmptyMap
    /\ current_block_index = 0
    /\ diffs = DiffNew
    /\ i = 0

DiffCall ==
    \/ \E new_data \in LiveSources : DiffStart(new_data)
    \/ DiffStartFail
    \/ \E read_ok \in BOOLEAN : Miss(read_ok)
    \/ Match
    \/ \E read_ok \in BOOLEAN : AdvanceStep(read_ok)
    \/ Finish
InitLive ==
    LiveInit /\ RefinerParked /\ ScriptParked /\ WindowParked /\ HashParked
NextLive == DiffCall
SpecLive == InitLive /\ [][NextLive]_vars /\ WF_vars(NextLive)

\* The string refiner: find_diff on a pair of strings, then apply_to_string.
InitRefine ==
    RefinerInit /\ DifferParked /\ ScriptParked /\ WindowParked /\ HashParked
NextRefine == RefinerNext
SpecRefine == InitRefine /\ [][NextRefine]_vars

\* A script built by add_insert and add_delete, then encoded and decoded, or
\* applied to a string.
InitScript ==
    ScriptInit /\ DifferParked /\ RefinerParked /\ WindowParked /\ HashParked
NextScript == ScriptNext
SpecScript == InitScript /\ [][NextScript]_vars

\* A window over a source, advanced by its caller.
InitWindow ==
    WindowInit /\ DifferParked /\ RefinerParked /\ ScriptParked /\ HashParked
NextWindow == WindowNext
SpecWindow == InitWindow /\ [][NextWindow]_vars

\* The string refiner on strings that hold a multi-byte character.
InitUtf8 ==
    Utf8Init /\ DifferParked /\ ScriptParked /\ WindowParked /\ HashParked
NextUtf8 == RefinerNext
SpecUtf8 == InitUtf8 /\ [][NextUtf8]_vars

\* A rolling hash built over a window and rolled by its caller.
InitHash ==
    HashInit /\ DifferParked /\ RefinerParked /\ ScriptParked /\ WindowParked
NextHash == HashNext
SpecHash == InitHash /\ [][NextHash]_vars

\* ================================================================ claims
Returned(kind) == pc = "done" /\ result.kind = kind

\* C1: applying the script returned by diff_and_update(new) on
\* Digest::new(old, B) to old, inserts first and then deletes, yields new.
C1_RoundTrip ==
    Returned("diff") =>
        LET rebuilt == apply_to_string(result.diff, result.old)
        IN ~rebuilt.panic /\ rebuilt.bytes = result.new

\* C2: after every successful diff_and_update(new), also after earlier calls
\* on the same digest, the digest equals Digest::new(new, B) and file_size is
\* the length of new.
C2_DigestRebuild ==
    Returned("diff") =>
        /\ digest = BlockHashesNew(result.new, entry.block_size)
        /\ digest.file_size = Len(result.new)

C2_Witness ==
    /\ Returned("diff")
    /\ result.origin = "diff_and_update"
    /\ result.old # result.new
    /\ Len(result.new) > digest.block_size
    /\ last_matching_block_index >= 0
    /\ Len(result.diff.inserts) > 0
    /\ Len(result.diff.deletes) > 0

\* C3: diff_and_update(s) on Digest::new(s, B) returns the empty script and
\* leaves the digest as it was, also when s holds blocks of equal content.
C3_Idempotence ==
    (Returned("diff") /\ result.origin = "new" /\ result.new = result.old) =>
        /\ is_empty(result.diff)
        /\ digest = entry

\* C4: a diff_and_update that returns an I/O error leaves the digest's bucket
\* map, block_size and file_size as they were before the call.
C4_FailureAtomicity ==
    (Returned("io_error") /\ result.op = "diff_and_update") => digest = entry

C4_Witness ==
    /\ Returned("io_error")
    /\ result.op = "diff_and_update"
    /\ get_bytes_read(window) > 0
    /\ new_hashes # EmptyMap
    /\ digest.hashes # EmptyMap
    /\ new_hashes # digest.hashes

\* Every block of source is stored in the digest at its index, and the total
\* length is file_size.
RECURSIVE EveryBlockStored(_, _, _)
EveryBlockStored(self, source, block_index) ==
    LET block == Take(source, Min(self.block_size, Len(source)))
        weak_hash == hash_buffer(block)
    IN IF Len(source) = 0 THEN TRUE
       ELSE /\ weak_hash \in DOMAIN self.hashes
            /\ \E k \in 1..Len(self.hashes[weak_hash]) :
                  self.hashes[weak_hash][k] = <<block_index, StrongHashOf(block)>>
            /\ EveryBlockStored(self, Drop(source, Len(block)), block_index + 1)

\* C5: verify_unchanged(source) is true exactly when every block of source has
\* its (weak, strong) pair stored at its index and the length is file_size; a
\* block whose weak hash is not in the digest makes it false.
C5_VerifyIff ==
    Returned("verify") =>
        (result.value <=>
            (EveryBlockStored(digest, result.source, 0)
             /\ Len(result.source) = digest.file_size))

\* C6: verify_unchanged(s) is true on Digest::new(s, B) and on a digest whose
\* last successful diff_and_update was given s, and does not change the digest.
C6_VerifySelf ==
    Returned("verify") =>
        /\ digest = entry
        /\ result.source = old => result.value

C6_Witness ==
    /\ Returned("verify")
    /\ origin = "diff_and_update"
    /\ result.source = old
    /\ Len(old) > digest.block_size
    /\ result.value

\* C7: diff_and_update with an empty source on the digest of a non-empty old
\* returns no insert and the one delete (0, |old|) and leaves a digest with no
\* block and file_size 0; on the digest of an empty old it returns the empty
\* script.
C7_EmptyNew ==
    (Returned("diff") /\ result.new = <<>>) =>
        IF result.old # <<>>
        THEN /\ result.diff.inserts = <<>>
             /\ result.diff.deletes = <<[position |-> 0, len |-> Len(result.old)]>>
             /\ digest.hashes = EmptyMap
             /\ digest.file_size = 0
        ELSE is_empty(result.diff)

C7_Witness ==
    /\ Returned("diff")
    /\ result.new = <<>>
    /\ Len(result.old) > entry.block_size
    /\ Len(result.diff.deletes) = 1

\* C8: on a digest of a zero-length file (Digest::empty or Digest::new over an
\* empty source) and a non-empty new source, diff_and_update returns the one
\* insert (0, new) and no delete.
C8_EmptyOld ==
    (Returned("diff") /\ entry.file_size = 0 /\ result.new # <<>>) =>
        result.diff = [inserts |-> <<[position |-> 0, data |-> result.new]>>,
                       deletes |-> <<>>]

C8_Witness ==
    /\ Returned("diff")
    /\ result.origin = "empty"
    /\ Len(result.new) > entry.block_size + entry.block_size
    /\ Len(result.diff.inserts) = 1

\* ---------------------------------------------------- claims on the refiner
RECURSIVE InsertedBytes(_)
InsertedBytes(inserts) ==
    IF inserts = <<>> THEN 0 ELSE Len(Head(inserts).data) + InsertedBytes(Tail(inserts))

RECURSIVE DeletedBytes(_)
DeletedBytes(deletes) ==
    IF deletes = <<>> THEN 0 ELSE Head(deletes).len + DeletedBytes(Tail(deletes))

\* Total size of a script: inserted bytes plus deleted bytes.
ScriptSize(diff) == InsertedBytes(diff.inserts) + DeletedBytes(diff.deletes)

\* Levenshtein distance (insert, delete and substitution each cost 1), by rows.
RECURSIVE LevRow(_, _, _, _)
LevRow(prev, c, b, k) ==
    IF k = 0 THEN <<prev[1] + 1>>
    ELSE LET row == LevRow(prev, c, b, k - 1)
         IN Append(row, Min(Min(prev[k + 1] + 1, row[k] + 1),
                            prev[k] + (IF c = b[k] THEN 0 ELSE 1)))

RECURSIVE LevRows(_, _, _, _)
LevRows(a, b, k, prev) ==
    IF k > Len(a) THEN prev ELSE LevRows(a, b, k + 1, LevRow(prev, a[k], b, Len(b)))

Levenshtein(a, b) == LevRows(a, b, 1, [k \in 1..Len(b) + 1 |-> k - 1])[Len(b) + 1]

\* Length of a longest common subsequence, by rows.
RECURSIVE LcsRow(_, _, _, _)
LcsRow(prev, c, b, k) ==
    IF k = 0 THEN <<0>>
    ELSE LET row == LcsRow(prev, c, b, k - 1)
         IN Append(row, IF c = b[k] THEN prev[k] + 1 ELSE Max(prev[k + 1], row[k]))

RECURSIVE LcsRows(_, _, _, _)
LcsRows(a, b, k, prev) ==
    IF k > Len(a) THEN prev ELSE LcsRows(a, b, k + 1, LcsRow(prev, a[k], b, Len(b)))

LCS(a, b) == LcsRows(a, b, 1, [k \in 1..Len(b) + 1 |-> 0])[Len(b) + 1]

\* C9: for strings of single-byte characters and the EditDistance scorer,
\* find_diff(old, new) returns and apply_to_string of its script on old
\* returns new.
C9_RefinerRoundTrip ==
    /\ stage \in {"found", "applied"} => ~refined.panic
    /\ stage = "applied" => ~applied.panic /\ applied.bytes = text_new

\* The split case of hirschberg ran and the script both inserts and deletes.
C9_Witness ==
    /\ stage = "applied"
    /\ Len(text_old) >= 2 /\ Len(text_new) >= 2
    /\ refined.diff.inserts # <<>> /\ refined.diff.deletes # <<>>
    /\ applied.bytes = text_new

\* C10 as stated: the size of the script of find_diff(old, new, EditDistance)
\* equals the Levenshtein distance between old and new.
C10_Levenshtein ==
    stage = "found" /\ ~refined.panic
        => ScriptSize(refined.diff) = Levenshtein(text_old, text_new)

\* C10 amended: for strings of single-byte characters the size of the script
\* equals the insert/delete distance |old| + |new| - 2 * LCS(old, new), in
\* which replacing a character costs 2.
C10_IndelDistance ==
    stage = "found"
        => /\ ~refined.panic
           /\ ScriptSize(refined.diff)
                  = Len(text_old) + Len(text_new) - 2 * LCS(text_old, text_new)

\* The split case ran on strings that share characters yet need a replacement,
\* so the two distances differ.
C10_Witness ==
    /\ stage = "found"
    /\ Len(text_old) >= 2 /\ Len(text_new) >= 2
    /\ LCS(text_old, text_new) > 0
    /\ ScriptSize(refined.diff) > Levenshtein(text_old, text_new)

\* ------------------------------------------------------ claims on the codecs
\* C11: for every digest made by Digest::new, Digest::empty or
\* diff_and_update, compress_to succeeds and expand_from of all the bytes it
\* wrote returns a digest equal to it: same block_size, same file_size, same
\* list of (block index, strong hash) for every weak hash.
C11_DigestCodec ==
    /\ Returned("compressed") => ~result.out.panic
    /\ Returned("expanded") /\ result.len = Len(result.bytes)
          => result.out.kind = "ok" /\ result.out.value = digest

\* A digest left by diff_and_update, with a bucket of two blocks and a short
\* final block, went through the codec.
C11_Witness ==
    /\ Returned("expanded") /\ result.len = Len(result.bytes)
    /\ origin = "diff_and_update"
    /\ digest.file_size % digest.block_size # 0
    /\ \E weak \in DOMAIN digest.hashes : Len(digest.hashes[weak]) >= 2
    /\ result.out.value = digest

\* C12: for every script, Diff::expand_from of all the bytes Diff::compress_to
\* wrote returns a script equal to it: the same inserts and the same deletes,
\* in the same order.
C12_ScriptCodec ==
    s_stage = "expanded" /\ s_out.len = Len(s_out.bytes)
        => s_out.out.kind = "ok" /\ s_out.out.value = script

\* A script of two inserts, the later one at the lower position, went through
\* the codec.
C12_Witness ==
    /\ s_stage = "expanded" /\ s_out.len = Len(s_out.bytes)
    /\ Len(script.inserts) = 2
    /\ script.inserts[1].position > script.inserts[2].position
    /\ s_out.out.value = script

\* C13 (digest side): BlockHashes::expand_from of a proper prefix of a valid
\* encoding returns an error: it neither aborts nor returns a digest.
C13_DecodeFailure ==
    Returned("expanded") /\ result.len < Len(result.bytes)
        => result.out.kind = "err"

\* ---------------------------------------------------- claims on application
\* Bytes inserted by the first k inserts.
RECURSIVE InsertedBefore(_, _)
InsertedBefore(inserts, k) ==
    IF k = 0 THEN 0 ELSE Len(inserts[k].data) + InsertedBefore(inserts, k - 1)

\* An insert lies beyond the end of the stream as it is at that stage: the old
\* stream and what the earlier inserts added.
InsertBeyondEnd(diff, string) ==
    \E k \in 1..Len(diff.inserts) :
        diff.inserts[k].position > Len(string) + InsertedBefore(diff.inserts, k - 1)

\* The inserts fit and a delete lies beyond the end of the post-insert stream.
DeleteBeyondEnd(diff, string) ==
    /\ ~InsertBeyondEnd(diff, string)
    /\ \E k \in 1..Len(diff.deletes) :
          diff.deletes[k].position
              > Len(string) + InsertedBefore(diff.inserts, Len(diff.inserts))

\* C14 as stated: applying a script with an insert beyond the end of the old
\* stream, or a delete beyond the end of the post-insert stream, does not
\* abort: it returns an error value.
C14_ApplyError ==
    s_stage = "applied"
    /\ (InsertBeyondEnd(script, s_out.string) \/ DeleteBeyondEnd(script, s_out.string))
        => ~s_out.out.panic

\* C14 amended: such an application aborts, by unwrap() on the exhausted
\* stream; it returns neither bytes nor an error value.
C14_ApplyPanics ==
    s_stage = "applied"
    /\ (InsertBeyondEnd(script, s_out.string) \/ DeleteBeyondEnd(script, s_out.string))
        => s_out.out.panic /\ s_out.out.bytes = <<>>

\* A script whose insert fits and whose delete lies past the post-insert
\* stream was applied.
C14_Witness ==
    /\ s_stage = "applied"
    /\ script.inserts # <<>>
    /\ DeleteBeyondEnd(script, s_out.string)
    /\ s_out.out.panic

\* ------------------------------------------------ claims on digest and script
RECURSIVE SumBytes(_)
SumBytes(bytes) == IF bytes = <<>> THEN 0 ELSE Head(bytes) + SumBytes(Tail(bytes))

\* The byte at place i of n weighs n - i + 1.
RECURSIVE WeightedSum(_)
WeightedSum(bytes) ==
    IF bytes = <<>> THEN 0 ELSE Len(bytes) * Head(bytes) + WeightedSum(Tail(bytes))

\* The weak hash of a block as <<b, a>>.
WeakHashOf(block) == <<WeightedSum(block) % U16, SumBytes(block) % U16>>

\* The places <<weak, k>> of all bucket entries.
EntryPlaces(self) ==
    UNION {{<<weak, k>> : k \in 1..Len(self.hashes[weak])} : weak \in DOMAIN self.hashes}

\* Block k of source for block size B.
BlockOf(source, block_size, k) ==
    SubSeq(source, k * block_size + 1, Min((k + 1) * block_size, Len(source)))

\* C15: in every digest made by Digest::new, Digest::empty and successful
\* diff_and_update calls, the indexes stored are exactly 0 .. ceil(file_size /
\* B) - 1, each once, and the entry of index k carries the weak and the strong
\* hash of bytes [k*B, min((k+1)*B, file_size)) of the source described.
C15_DigestInvariant ==
    LET block_count == (digest.file_size + digest.block_size - 1) \div digest.block_size
    IN /\ digest.file_size = Len(old)
       /\ {e[2] : e \in AllEntries(digest)} = 0..(block_count - 1)
       /\ Cardinality(EntryPlaces(digest)) = block_count
       /\ \A k \in 0..(block_count - 1) :
             LET block == BlockOf(old, digest.block_size, k)
             IN <<WeakHashOf(block), k, StrongHashOf(block)>> \in AllEntries(digest)

\* diff_and_update left a digest of several blocks, the last one short.
C15_Witness ==
    /\ pc = "idle"
    /\ origin = "diff_and_update"
    /\ digest.file_size > digest.block_size
    /\ digest.file_size % digest.block_size # 0
    /\ Cardinality(EntryPlaces(digest)) >= 2

\* C16: in every script returned by diff_and_update the inserts are strictly
\* increasing in position, have data, and none ends where the next begins;
\* the deletes are strictly increasing in position and have length > 0.
C16_ScriptOrdering ==
    Returned("diff") =>
        LET inserts == result.diff.inserts
            deletes == result.diff.deletes
        IN /\ \A k \in 1..Len(inserts) : Len(inserts[k].data) > 0
           /\ \A k \in 1..(Len(inserts) - 1) :
                 inserts[k].position + Len(inserts[k].data) < inserts[k + 1].position
           /\ \A k \in 1..Len(deletes) : deletes[k].len > 0
           /\ \A k \in 1..(Len(deletes) - 1) :
                 deletes[k].position < deletes[k + 1].position

\* A script with two inserts and a delete was returned.
C16_Witness ==
    /\ Returned("diff")
    /\ Len(result.diff.inserts) >= 2
    /\ Len(result.diff.deletes) >= 1

\* C17: at every window position probed, if the bucket of the current weak
\* hash holds an entry with the strong hash of the frame and an index greater
\* than last_matching_block_index, the probe reports the first such entry,
\* also when an earlier entry of the bucket has the same strong hash and an
\* index that is not greater.
C17_MatchProbe ==
    pc = "loop" /\ frame_size(window) > 0 =>
        LET key == get_hash(weak_hasher)
            bucket == IF key \in DOMAIN digest.hashes THEN digest.hashes[key] ELSE <<>>
            strong == StrongHashOf(frame(window)[1] \o frame(window)[2])
            later == {k \in 1..Len(bucket) :
                         /\ bucket[k][2] = strong
                         /\ bucket[k][1] > last_matching_block_index}
            probe == check_match(digest, weak_hasher, strong_hasher, window,
                                 last_matching_block_index)
        IN later # {} => probe.index = Some(bucket[SetMin(later)][1])

\* ------------------------------------------------------- window claims
\* s[from .. to) of a sequence, positions counted from 0.
Range(s, from, to) == Take(Drop(s, from), to - from)

\* C18: over a source s that reads without error, with block size B, the
\* k-th advance() (from 0) returns (Some(s[k]), Some(s[k+B])) when
\* k+B < |s|, (Some(s[k]), None) when k < |s| <= k+B, and (None, None) when
\* k >= |s|; a call returning (None, None) leaves offset, bytes_read and both
\* buffers as they were; bytes_read is min(number of calls, |s|).
C18_AdvanceSequence ==
    w_stage = "run" =>
        LET s == win.reader.data
            B == win.block_size
            k == advances - 1
        IN /\ win.bytes_read = Min(advances, Len(s))
           /\ advances > 0 =>
                 /\ returned = IF k + B < Len(s)
                                THEN <<Some(s[k + 1]), Some(s[k + B + 1])>>
                                ELSE IF k < Len(s)
                                THEN <<Some(s[k + 1]), None>>
                                ELSE <<None, None>>
                 /\ returned = <<None, None>> =>
                       /\ win.offset = win_before.offset
                       /\ win.bytes_read = win_before.bytes_read
                       /\ win.front = win_before.front
                       /\ win.back = win_before.back

\* The source was read to its end through at least one reload, the last call
\* found the window exhausted, and an earlier one returned a head byte.
C18_Witness ==
    /\ w_stage = "run"
    /\ Len(win.reader.data) > win.block_size
    /\ advances = Len(win.reader.data) + 1
    /\ returned = <<None, None>>

\* C19: in every state reached from construction by advance() calls over a
\* source s that reads without error, the two slices of frame() together
\* are s[bytes_read .. min(bytes_read + B, |s|)), and |front| <= B,
\* |back| <= B, 0 <= offset <= |front|.
C19_FrameInvariant ==
    w_stage = "run" =>
        LET s == win.reader.data
            B == win.block_size
            view == frame(win)[1] \o frame(win)[2]
        IN /\ view = Range(s, win.bytes_read, Min(win.bytes_read + B, Len(s)))
           /\ Len(view) <= B
           /\ Len(view) < B => Len(s) - win.bytes_read < B
           /\ Len(win.front) <= B
           /\ Len(win.back) <= B
           /\ 0 <= win.offset /\ win.offset <= Len(win.front)

\* After some advances the frame takes bytes of both buffers.
C19_Witness ==
    /\ w_stage = "run"
    /\ advances > 0
    /\ Len(frame(win)[1]) > 0
    /\ Len(frame(win)[2]) > 0

\* C20: frame_size() is |front| - offset + min(offset, |back|), the number
\* of bytes in the two slices of frame(), in every reachable window state.
C20_FrameSize ==
    w_stage = "run" =>
        /\ frame_size(win) =
              Len(win.front) - win.offset + Min(win.offset, Len(win.back))
        /\ frame_size(win) = Len(frame(win)[1]) + Len(frame(win)[2])

\* ------------------------------------------------- claims on the rolling hash
\* C21: for a window w of 1 to 2^16 - 1 bytes whose hash was built by
\* RollingHash::new(w) or reached by earlier rolls, roll_hash(Some(head), w[0])
\* makes get_hash() equal hash_buffer(w[1..] ++ [head]) and
\* roll_hash(None, w[0]) makes it hash_buffer(w[1..]), both halves modulo
\* 2^16; once every byte is rolled out with None the hash is 0.
C21_RollingLaw ==
    h_stage = "run" =>
        /\ get_hash(hh) = hash_buffer(hw)
        /\ get_hash(hh) = WeakHashOf(hw)
        /\ hh.block_size = Len(hw)
        /\ hw = <<>> => get_hash(hh) = <<0, 0>>

\* Rolls with and without a head byte were made on a window whose weighted
\* sum is past 2^16, so that the b half has wrapped.
C21_Witness ==
    /\ h_stage = "run"
    /\ h_rolls = MaxRolls
    /\ Len(hw) = LongLen - 1
    /\ WeightedSum(hw) >= U16
    /\ hh.b # WeightedSum(hw)
    /\ hh.a = SumBytes(hw)

\* ------------------------------------------------- claims on the merge rule
\* The list after is the list before with its last element replaced by last.
MergedInto(before, after, last) ==
    /\ Len(after) = Len(before)
    /\ \A k \in 1..(Len(before) - 1) : after[k] = before[k]
    /\ after[Len(after)] = last

\* The list after is the list before with one more element, pushed.
PushedOnto(before, after, pushed) ==
    /\ Len(after) = Len(before) + 1
    /\ \A k \in 1..Len(before) : after[k] = before[k]
    /\ after[Len(after)] = pushed

\* C22: add_insert(p, data) appends data to the last insert when
\* last.position + |last.data| = p and otherwise pushes the insert (p, data);
\* add_delete(p, len) adds len to the last delete when last.position = p and
\* otherwise pushes the delete (p, len); neither changes an earlier element
\* of its list or anything in the other list.
C22_MergeRule ==
    [][/\ \A p \in Positions, byte \in Byte :
             AddInsert(p, <<byte>>) =>
                 LET n == Len(script.inserts)
                     last == script.inserts[n]
                 IN /\ script'.deletes = script.deletes
                    /\ IF n > 0 /\ last.position + Len(last.data) = p
                       THEN MergedInto(script.inserts, script'.inserts,
                                [position |-> last.position,
                                 data |-> last.data \o <<byte>>])
                       ELSE PushedOnto(script.inserts, script'.inserts,
                                [position |-> p, data |-> <<byte>>])
       /\ \A p \in Positions, len \in Lengths :
             AddDelete(p, len) =>
                 LET n == Len(script.deletes)
                     last == script.deletes[n]
                 IN /\ script'.inserts = script.inserts
                    /\ IF n > 0 /\ last.position = p
                       THEN MergedInto(script.deletes, script'.deletes,
                                [position |-> p, len |-> last.len + len])
                       ELSE PushedOnto(script.deletes, script'.deletes,
                                [position |-> p, len |-> len])]_vars

\* A second add_insert was merged into the first.
C22_Witness ==
    /\ s_stage = "build"
    /\ s_calls = 2
    /\ Len(script.inserts) = 1
    /\ Len(script.inserts[1].data) = 2
    /\ script.deletes = <<>>

\* ------------------------------------------- claims on multi-byte strings
\* The bytes a UTF-8 character takes, from its first byte.
Utf8Width(lead) ==
    IF lead < 128 THEN 1 ELSE IF lead < 224 THEN 2 ELSE IF lead < 240 THEN 3 ELSE 4

\* bytes is the UTF-8 encoding of whole characters.
WholeChars(bytes) ==
    \A k \in 1..Len(Chars(bytes)) :
        LET c == Chars(bytes)[k]
        IN ~IsContinuation(c[1]) /\ Len(c) = Utf8Width(c[1])

\* C23: for strings old and new that hold multi-byte UTF-8 characters,
\* find_diff returns without aborting, the bytes of every insert of its
\* script encode whole characters, and the script applied to old yields new.
C23_CharOrientation ==
    /\ stage \in {"found", "applied"} =>
          /\ ~refined.panic
          /\ \A k \in 1..Len(refined.diff.inserts) :
                 WholeChars(refined.diff.inserts[k].data)
    /\ stage = "applied" => ~applied.panic /\ applied.bytes = text_new

\* ------------------------------------------- claims on the refiner's script
\* C24: every script returned by find_diff, also for two empty strings, has
\* only inserts with bytes and deletes with length > 0, its inserts strictly
\* increasing in position and its deletes strictly increasing in position;
\* find_diff(s, s) is the empty script for every s.
C24_RefinerScript ==
    stage \in {"found", "applied"} /\ ~refined.panic =>
        LET inserts == refined.diff.inserts
            deletes == refined.diff.deletes
        IN /\ \A k \in 1..Len(inserts) : Len(inserts[k].data) > 0
           /\ \A k \in 1..(Len(inserts) - 1) :
                 inserts[k].position < inserts[k + 1].position
           /\ \A k \in 1..Len(deletes) : deletes[k].len > 0
           /\ \A k \in 1..(Len(deletes) - 1) :
                 deletes[k].position < deletes[k + 1].position
           /\ text_old = text_new => is_empty(refined.diff)

\* --------------------------------------------- claims on diff_and_update
\* A step of the call never takes bytes_read back; a miss, and the first
\* pass of the inner loop after a match, add one to it unless a read fails.
BytesReadGrows ==
    pc \in {"loop", "advance"} =>
        /\ get_bytes_read(window') >= get_bytes_read(window)
        /\ (pc = "loop" /\ pc' = "loop") =>
               get_bytes_read(window') = get_bytes_read(window) + 1
        /\ (pc = "advance" /\ i = 0 /\ pc' # "done") =>
               get_bytes_read(window') = get_bytes_read(window) + 1

\* C25: the main loop of diff_and_update ends for every source and block
\* size; every iteration, match or miss, advances the window by at least one
\* byte, so that bytes_read grows with each iteration; the loop ends with
\* bytes_read equal to the length of the source and frame_size() = 0.
C25_Termination ==
    /\ (pc \in {"loop", "advance"}) ~> (pc = "done")
    /\ [][BytesReadGrows]_vars
    /\ [](Returned("diff") =>
            /\ get_bytes_read(window) = Len(window.reader.data)
            /\ frame_size(window) = 0)

\* A call that went through misses and a match over more than one block
\* has returned.
C25_Witness ==
    /\ Returned("diff")
    /\ Len(window.reader.data) > digest.block_size
    /\ last_matching_block_index >= 0
    /\ Len(result.diff.inserts) > 0

\* The bytes of the current frame.
FrameBytes(w) == frame(w)[1] \o frame(w)[2]

\* C26: inside diff_and_update, at the head of every iteration of the main
\* loop and wherever a block is recorded into the new digest, get_hash() of
\* the rolling hash is hash_buffer of the frame's bytes and the hash's
\* tracked window length is the number of bytes in the frame; the tracked
\* length never goes below 0.
C26_HashWindowCoupling ==
    /\ (pc = "loop" \/ (pc = "advance" /\ on_boundry(window)
                                       /\ frame_size(window) > 0)) =>
          /\ get_hash(weak_hasher) = hash_buffer(FrameBytes(window))
          /\ weak_hasher.block_size = Len(FrameBytes(window))
    /\ weak_hasher.block_size >= 0

\* The inner loop after a match is about to record a block shorter than
\* block_size, at a boundary it reached by rolling.
C26_Witness ==
    /\ pc = "advance"
    /\ i > 0
    /\ on_boundry(window)
    /\ frame_size(window) > 0
    /\ Len(FrameBytes(window)) < digest.block_size
    /\ insert_buffer = <<>>
    /\ current_block_index > 0

\* C27: the script returned by diff_and_update(new) on Digest::new(old, B)
\* has |old| + inserted bytes - deleted bytes = |new|; the deletes cover the
\* old blocks that were never matched and the inserts the new bytes that no
\* match covered: at the head of the main loop the new bytes read and
\* neither inserted nor waiting in the insert buffer are as many as the old
\* bytes of the blocks up to the last matched one that were not deleted.
C27_LengthConservation ==
    /\ Returned("diff") =>
          Len(result.old) + InsertedBytes(result.diff.inserts)
              - DeletedBytes(result.diff.deletes) = Len(result.new)
    /\ pc = "loop" =>
          LET covered == get_bytes_read(window) - InsertedBytes(diffs.inserts)
                             - Len(insert_buffer)
              passed == Min(digest.block_size * (last_matching_block_index + 1),
                            digest.file_size)
          IN /\ covered >= 0
             /\ covered = passed - DeletedBytes(diffs.deletes)

\* A script with an insert and a delete was returned for a new stream that
\* is shorter than the old one.
C27_Witness ==
    /\ Returned("diff")
    /\ Len(result.new) < Len(result.old)
    /\ Len(result.diff.inserts) > 0
    /\ Len(result.diff.deletes) > 0
    /\ last_matching_block_index >= 0

\* A delete is emitted at the value bytes_read has at that moment.
DeleteAtBytesRead ==
    (pc = "loop" /\ diffs'.deletes # diffs.deletes) =>
        /\ Len(diffs'.deletes) > 0
        /\ diffs'.deletes[Len(diffs'.deletes)].position = window.bytes_read
        /\ window' = window

\* C28: every insert (p, data) of a script returned by diff_and_update(new)
\* has data = new[p .. p + |data|), and every delete has for position the
\* value of bytes_read, the offset in the new stream, at the moment it was
\* emitted, whatever earlier deletes removed.
C28_NewStreamOffsets ==
    /\ [](Returned("diff") =>
            \A k \in 1..Len(result.diff.inserts) :
                LET ins == result.diff.inserts[k]
                IN /\ ins.position >= 0
                   /\ ins.position + Len(ins.data) <= Len(result.new)
                   /\ ins.data = Range(result.new, ins.position,
                                       ins.position + Len(ins.data)))
    /\ [][DeleteAtBytesRead]_vars

\* A script with an insert between two deletes was returned.
C28_Witness ==
    /\ Returned("diff")
    /\ Len(result.diff.deletes) >= 2
    /\ Len(result.diff.inserts) >= 1
    /\ result.diff.deletes[1].position < result.diff.inserts[1].position
    /\ result.diff.inserts[1].position < result.diff.deletes[2].position

\* No delete of the script lies before the end of its last insert.
DeletesAfterInserts(diff) ==
    \/ diff.inserts = <<>>
    \/ diff.deletes = <<>>
    \/ LET last == diff.inserts[Len(diff.inserts)]
       IN \A k \in 1..Len(diff.deletes) :
              diff.deletes[k].position >= last.position + Len(last.data)

\* C29: when the script returned by diff_and_update(new) on
\* Digest::new(old, B) has no delete placed before the end of its last
\* insert (or has no insert, or no delete), applying it to old yields new.
C29_RestrictedRoundTrip ==
    (Returned("diff") /\ DeletesAfterInserts(result.diff)) =>
        LET rebuilt == apply_to_string(result.diff, result.old)
        IN ~rebuilt.panic /\ rebuilt.bytes = result.new

\* A script with an insert and, after it, a delete was returned by a call
\* that found a match.
C29_Witness ==
    /\ Returned("diff")
    /\ DeletesAfterInserts(result.diff)
    /\ Len(result.diff.inserts) >= 1
    /\ Len(result.diff.deletes) >= 1
    /\ last_matching_block_index >= 0
    /\ result.old # result.new

\* ------------------------------------------------ claims on minimal scripts
\* The least number of single-character inserts and deletes that turn a into
\* b, by rows: a character of a is deleted, a character of b inserted, or
\* equal characters are kept at no cost.
RECURSIVE IndelRow(_, _, _, _)
IndelRow(prev, c, b, k) ==
    IF k = 0 THEN <<prev[1] + 1>>
    ELSE LET row == IndelRow(prev, c, b, k - 1)
             edit == Min(prev[k + 1] + 1, row[k] + 1)
         IN Append(row, IF c = b[k] THEN Min(edit, prev[k]) ELSE edit)

RECURSIVE IndelRows(_, _, _, _)
IndelRows(a, b, k, prev) ==
    IF k > Len(a) THEN prev
    ELSE IndelRows(a, b, k + 1, IndelRow(prev, a[k], b, Len(b)))

IndelDistance(a, b) ==
    IndelRows(a, b, 1, [k \in 1..Len(b) + 1 |-> k - 1])[Len(b) + 1]

\* C30: for strings of single-byte characters the script returned by
\* find_diff with the EditDistance scorer turns old into new and has size
\* |old| + |new| - 2 * LCS(old, new); no script of inserts and deletes that
\* turns old into new is smaller.
C30_MinimalScript ==
    /\ stage \in {"found", "applied"} =>
          /\ ~refined.panic
          /\ ScriptSize(refined.diff) = IndelDistance(text_old, text_new)
          /\ IndelDistance(text_old, text_new)
                 = Len(text_old) + Len(text_new) - 2 * LCS(text_old, text_new)
    /\ stage = "applied" => ~applied.panic /\ applied.bytes = text_new

\* A script with inserts and deletes, for strings that share characters, was
\* found and applied.
C30_Witness ==
    /\ stage = "applied"
    /\ Len(text_old) >= 3 /\ Len(text_new) >= 3
    /\ LCS(text_old, text_new) >= 2
    /\ Len(refined.diff.inserts) >= 1
    /\ Len(refined.diff.deletes) >= 1
    /\ applied.bytes = text_new

====
